---------------------------- MODULE Spec2Model ----------------------------
(***************************************************************************)
(* SpeculationController (vllm/v1/spec_decode/policy.py): the adaptive     *)
(* controller that picks the speculative-decoding depth of a request.      *)
(*                                                                         *)
(* Python floats are modelled by exact rationals <<n, d>> (d > 0, lowest   *)
(* terms).  All configuration values and observations used below are       *)
(* dyadic rationals, on which the float sums, products and comparisons of  *)
(* the source are exact.  A raised ZeroDivisionError is an outcome of its  *)
(* own, never a number.                                                    *)
(***************************************************************************)
EXTENDS Integers, Sequences, FiniteSets, TLC

(***************************************************************************)
(* Bounds of the model.                                                    *)
(***************************************************************************)
\* largest max_d handed to the constructor
MaxDepth == 3
\* number of update calls with drafted > 0 over one run
MaxUpdates == 2

Reqs == {"r1", "r2"}

(***************************************************************************)
(* Exact rational arithmetic standing for the float operations.            *)
(***************************************************************************)
Abs(n) == IF n < 0 THEN -n ELSE n

RECURSIVE GCD(_, _)
GCD(a, b) == IF b = 0 THEN a ELSE GCD(b, a % b)

\* n/d (d # 0) in lowest terms with a positive denominator
Norm(n, d) ==
    LET g == GCD(Abs(n), Abs(d))
        sgn == IF d < 0 THEN -1 ELSE 1
    IN  <<(sgn * n) \div g, (sgn * d) \div g>>

R(n) == <<n, 1>>
Zero == R(0)
One == R(1)

RAdd(x, y) == Norm(x[1] * y[2] + y[1] * x[2], x[2] * y[2])
RSub(x, y) == Norm(x[1] * y[2] - y[1] * x[2], x[2] * y[2])
RMul(x, y) == Norm(x[1] * y[1], x[2] * y[2])
\* x / y for y # 0 (a zero divisor raises in Python; callers test it first)
RDiv(x, y) == Norm(x[1] * y[2], x[2] * y[1])
RLeq(x, y) == x[1] * y[2] <= y[1] * x[2]
RLt(x, y) == x[1] * y[2] < y[1] * x[2]
RMin(x, y) == IF RLt(y, x) THEN y ELSE x
RMax(x, y) == IF RLt(x, y) THEN y ELSE x
\* x // y for y > 0, as an integer
RFloorDiv(x, y) == (x[1] * y[2]) \div (x[2] * y[1])

RECURSIVE RPow(_, _)
RPow(x, k) == IF k = 0 THEN One ELSE RMul(x, RPow(x, k - 1))

IMin(a, b) == IF b < a THEN b ELSE a
IMax(a, b) == IF a < b THEN b ELSE a


(***************************************************************************)
(* Inputs: the constructor's arguments and the arguments of update.        *)
(***************************************************************************)
None == <<>>

MaxDInputs == -1 .. MaxDepth
CValues == {<<1, 4>>, <<1, 2>>, One}
GammaValues == {Zero, <<1, 4>>, One, R(2)}
\* <<ops_budget, overhead_hat_c>>; overhead_hat_c is read only under a budget
OpsInputs == {<<None, Zero>>, <<One, <<1, 2>>>>, <<<<7, 2>>, Zero>>, <<<<7, 2>>, <<1, 2>>>>}
BetaValues == {Zero, <<1, 2>>, One}
DraftedValues == -1 .. 2
AcceptedValues == 0 .. 2

VARIABLES
    max_d,            \* self.max_d
    c,                \* self.c
    gamma,            \* self.gamma
    ops_budget,       \* self.ops_budget, None when absent
    overhead_hat_c,   \* self.overhead_hat_c
    ema_beta,         \* self.ema_beta
    stats,            \* self._stats: req_id -> alpha_hat, defined on the keys present
    call,             \* history: the last public call, its arguments and,
                      \* for decide_depth, how it ended
    prior,            \* history: self._stats as the last call found it
    fed               \* history: per request, the update calls with drafted > 0 so far

vars == <<max_d, c, gamma, ops_budget, overhead_hat_c, ema_beta, stats, call, prior, fed>>
config == <<max_d, c, gamma, ops_budget, overhead_hat_c, ema_beta>>

\* A = 1 - gamma, B = c + gamma
A == RSub(One, gamma)
B == RAdd(c, gamma)

\* A + B d, the linearized verify latency
Latency(d) == RAdd(A, RMul(B, R(d)))

(***************************************************************************)
(* _ops_cap: None without a budget, else the depth the budget allows.      *)
(***************************************************************************)
HasOpsCap == ops_budget # None

\* faulty variant: the budget divided without taking off the base pass
OpsCapWithoutBase ==
    IF RLeq(ops_budget, One) THEN 0
    ELSE IMax(0, RFloorDiv(ops_budget, RAdd(One, overhead_hat_c)))

OpsCap ==
    IF RLeq(ops_budget, One) THEN 0
    ELSE IMax(0, RFloorDiv(RSub(ops_budget, One), RAdd(One, overhead_hat_c)))

\* d_cap of decide_depth
DCap == IF HasOpsCap THEN IMin(max_d, OpsCap) ELSE max_d

(***************************************************************************)
(* _speedup.  With alpha >= 1 the limit (d + 1) / (A + B d) is taken       *)
(* before any test of the denominator: the division raises                 *)
(* ZeroDivisionError when A + B d = 0.                                     *)
(***************************************************************************)
SpeedupRaises(d, alpha) ==
    /\ d >= 0
    /\ RLeq(One, alpha)
    /\ Latency(d) = Zero

Speedup(d, alpha) ==
    IF d < 0 THEN One
    ELSE IF RLeq(One, alpha) THEN RDiv(R(d + 1), Latency(d))
    ELSE LET denom == RMul(RSub(One, alpha), Latency(d))
         IN  IF RLeq(denom, Zero) THEN One
             ELSE RDiv(RSub(One, RPow(alpha, d + 1)), denom)

\* how a call of decide_depth ends
Ret(d) == [raised |-> FALSE, depth |-> d]
Raised == [raised |-> TRUE]

(***************************************************************************)
(* _best_depth: the scan over d = 0 .. d_cap keeping the first d whose     *)
(* speedup is strictly greater than the best so far (1.0 at the start).    *)
(***************************************************************************)
\* faulty variant: best_s is never updated, so the last d beating 1.0 wins
RECURSIVE ScanStaleBest(_, _, _, _, _)
ScanStaleBest(d, best_d, best_s, alpha, d_cap) ==
    IF d > d_cap THEN Ret(best_d)
    ELSE IF SpeedupRaises(d, alpha) THEN Raised
    ELSE IF RLt(best_s, Speedup(d, alpha))
         THEN ScanStaleBest(d + 1, d, best_s, alpha, d_cap)
         ELSE ScanStaleBest(d + 1, best_d, best_s, alpha, d_cap)

RECURSIVE Scan(_, _, _, _, _)
Scan(d, best_d, best_s, alpha, d_cap) ==
    IF d > d_cap THEN Ret(best_d)
    ELSE IF SpeedupRaises(d, alpha) THEN Raised
    ELSE LET S == Speedup(d, alpha)
         IN  IF RLt(best_s, S) THEN Scan(d + 1, d, S, alpha, d_cap)
             ELSE Scan(d + 1, best_d, best_s, alpha, d_cap)

BestDepth(alpha, d_cap) ==
    IF RLeq(alpha, Zero) THEN Ret(0)
    ELSE IF d_cap <= 0 THEN Ret(0)
    ELSE Scan(0, 0, One, alpha, d_cap)

(***************************************************************************)
(* decide_depth: how the call for req_id r ends when self._stats is st.    *)
(***************************************************************************)
\* faulty variant: the no-regret gate is missing
DecideWithoutGating(st, r) ==
    IF DCap <= 0 THEN Ret(0)
    ELSE IF r \notin DOMAIN st THEN Ret(DCap)
    ELSE BestDepth(st[r], DCap)

Decide(st, r) ==
    IF DCap <= 0 THEN Ret(0)
    ELSE IF r \notin DOMAIN st THEN Ret(DCap)
    ELSE IF RLeq(st[r], c) THEN Ret(0)
    ELSE BestDepth(st[r], DCap)

Outcome(r) == Decide(stats, r)

(***************************************************************************)
(* The constructor.                                                        *)
(***************************************************************************)
InitWith(max_ds, cs, gammas, opss, betas) ==
    /\ \E m \in max_ds : max_d = IMax(0, m)
    /\ c \in cs
    /\ gamma \in gammas
    /\ \E o \in opss : ops_budget = o[1] /\ overhead_hat_c = o[2]
    /\ ema_beta \in betas
    /\ stats = << >>
    /\ call = [op |-> "init"]
    /\ prior = << >>
    /\ fed = [r \in Reqs |-> 0]

\* every depth configuration, one smoothing factor
Init == InitWith(MaxDInputs, CValues, GammaValues, OpsInputs, {<<1, 2>>})

\* every smoothing factor, one depth configuration
InitEma == InitWith({MaxDepth}, {<<1, 4>>}, {Zero}, {<<None, Zero>>}, BetaValues)

(***************************************************************************)
(* update(req_id, drafted, accepted)                                       *)
(***************************************************************************)
\* faulty variant: the fraction is not clamped from above
FractionUnclamped(drafted, accepted) == RMax(Zero, Norm(accepted, drafted))

Fraction(drafted, accepted) == RMax(Zero, RMin(One, Norm(accepted, drafted)))

\* faulty variant: the two weights are exchanged
EmaSwapped(old, alpha) == RAdd(RMul(RSub(One, ema_beta), old), RMul(ema_beta, alpha))

Ema(old, alpha) == RAdd(RMul(ema_beta, old), RMul(RSub(One, ema_beta), alpha))

\* faulty variant: only drafted = 0 returns early
NoInformationZeroOnly(drafted) == drafted = 0

NoInformation(drafted) == drafted <= 0

TotalFed == fed["r1"] + fed["r2"]

Update(r, drafted, accepted) ==
    /\ call' = [op |-> "update", req |-> r, drafted |-> drafted, accepted |-> accepted]
    /\ prior' = stats
    /\ IF NoInformation(drafted)
       THEN UNCHANGED <<stats, fed>>
       ELSE /\ TotalFed < MaxUpdates
            /\ LET alpha == Fraction(drafted, accepted)
               IN  stats' = IF r \in DOMAIN stats
                            THEN [stats EXCEPT ![r] = Ema(stats[r], alpha)]
                            ELSE [q \in DOMAIN stats \cup {r} |->
                                     IF q = r THEN alpha ELSE stats[q]]
            /\ fed' = [fed EXCEPT ![r] = @ + 1]
    /\ UNCHANGED config

(***************************************************************************)
(* decide_depth(req_id)                                                    *)
(***************************************************************************)
DecideDepth(r) ==
    /\ call' = [op |-> "decide_depth", req |-> r] @@ Outcome(r)
    /\ prior' = stats
    /\ UNCHANGED <<stats, fed>>
    /\ UNCHANGED config

Next ==
    \/ \E r \in Reqs, drafted \in DraftedValues, accepted \in AcceptedValues :
          Update(r, drafted, accepted)
    \/ \E r \in Reqs : DecideDepth(r)

Spec == Init /\ [][Next]_vars

SpecEma == InitEma /\ [][Next]_vars

(***************************************************************************)
(* What the claims are stated with: the cap and the maximizer written out  *)
(* from their definitions, not taken from the operators above.             *)
(***************************************************************************)
\* floor of a rational x >= 0
FloorOf(x) == CHOOSE k \in 0 .. x[1] : k * x[2] <= x[1] /\ x[1] < (k + 1) * x[2]

\* d_cap = min(max_depth, ops_cap)
ExpectedDCap ==
    IF ops_budget = None THEN max_d
    ELSE IF RLeq(ops_budget, One) THEN 0
    ELSE IMin(max_d, FloorOf(RDiv(RSub(ops_budget, One), RAdd(One, overhead_hat_c))))

Decided == call.op = "decide_depth"
Updated == call.op = "update"
Returned == Decided /\ ~call.raised
HasEstimate(r) == r \in DOMAIN stats

\* d is the smallest maximizer of the speedup over 0 .. cap
SmallestMaximizer(d, alpha, cap) ==
    /\ d \in 0 .. cap
    /\ \A e \in 0 .. cap : ~SpeedupRaises(e, alpha)
    /\ \A e \in 0 .. cap : RLeq(Speedup(e, alpha), Speedup(d, alpha))
    /\ \A e \in 0 .. (d - 1) : RLt(Speedup(e, alpha), Speedup(d, alpha))

(***************************************************************************)
(* C1  Every decide_depth call returns an integer d with 0 <= d <= d_cap,  *)
(* d_cap = min(max_depth, ops_cap); so d <= max_depth, and d = 0 when      *)
(* ops_budget = 1.0.                                                       *)
(***************************************************************************)
C1_ReturnsDepthWithinCap ==
    Decided =>
        /\ ~call.raised
        /\ call.depth \in 0 .. ExpectedDCap
        /\ call.depth <= max_d
        /\ (ops_budget = One => call.depth = 0)

\* the same bound for the calls that return
C1_ReturnedDepthWithinCap ==
    Returned =>
        /\ call.depth \in 0 .. ExpectedDCap
        /\ call.depth <= max_d
        /\ (ops_budget = One => call.depth = 0)

(***************************************************************************)
(* C2  Cold start: for a request with no update of drafted > 0 so far,     *)
(* decide_depth returns exactly d_cap (max_depth without a budget).        *)
(***************************************************************************)
C2_ColdStartReturnsCap ==
    (Decided /\ fed[call.req] = 0) =>
        /\ ~call.raised
        /\ call.depth = ExpectedDCap
        /\ (ops_budget = None => call.depth = max_d)
        /\ (call.depth = 0 => ExpectedDCap = 0)

C2_Witness ==
    /\ Decided
    /\ fed[call.req] = 0
    /\ \E q \in Reqs : fed[q] > 0
    /\ ops_budget # None
    /\ call.depth > 0
    /\ call.depth < max_d

(***************************************************************************)
(* C3  No-regret gating: with an estimate alpha_hat <= cost_ratio,         *)
(* decide_depth returns exactly 0.                                         *)
(***************************************************************************)
C3_GatedReturnsZero ==
    (Decided /\ HasEstimate(call.req) /\ RLeq(stats[call.req], c)) =>
        /\ ~call.raised
        /\ call.depth = 0

C3_Witness ==
    /\ Decided
    /\ HasEstimate(call.req)
    /\ RLeq(stats[call.req], c)
    /\ RLt(Zero, stats[call.req])
    /\ DCap > 0
    /\ call.depth = 0

(***************************************************************************)
(* C4  With an estimate alpha_hat, a returned depth d has                  *)
(* S(d, alpha_hat) >= S(0, alpha_hat), and S(d, alpha_hat) > 1 when d > 0. *)
(***************************************************************************)
C4_NeverWorseThanNoSpeculation ==
    (Returned /\ HasEstimate(call.req) /\ call.depth > 0) =>
        LET alpha == stats[call.req]
        IN  /\ ~SpeedupRaises(0, alpha)
            /\ ~SpeedupRaises(call.depth, alpha)
            /\ RLeq(Speedup(0, alpha), Speedup(call.depth, alpha))
            /\ RLt(One, Speedup(call.depth, alpha))

C4_Witness ==
    /\ Returned
    /\ HasEstimate(call.req)
    /\ call.depth > 0
    /\ call.depth < DCap
    /\ RLt(One, Speedup(0, stats[call.req]))

(***************************************************************************)
(* C5  With an estimate alpha_hat > cost_ratio and d_cap > 0, decide_depth *)
(* returns the smallest depth of 0 .. d_cap that maximizes the speedup.    *)
(***************************************************************************)
C5_ReturnsSmallestMaximizer ==
    (Decided /\ HasEstimate(call.req) /\ RLt(c, stats[call.req]) /\ ExpectedDCap > 0) =>
        /\ ~call.raised
        /\ SmallestMaximizer(call.depth, stats[call.req], ExpectedDCap)

\* the same for the calls that return
C5_ReturnedSmallestMaximizer ==
    (Returned /\ HasEstimate(call.req) /\ RLt(c, stats[call.req]) /\ ExpectedDCap > 0) =>
        SmallestMaximizer(call.depth, stats[call.req], ExpectedDCap)

(***************************************************************************)
(* C6  No operation raises: every decide_depth call yields a depth.        *)
(***************************************************************************)
C6_NoCallRaises == Decided => ~call.raised

(***************************************************************************)
(* C7  update with drafted <= 0 leaves the whole estimation map as it was, *)
(* and with it the result of decide_depth for every request.               *)
(***************************************************************************)
C7_NoInformationIsNoOp ==
    (Updated /\ call.drafted <= 0) =>
        /\ stats = prior
        /\ \A q \in Reqs : Decide(stats, q) = Decide(prior, q)

C7_Witness ==
    /\ Updated
    /\ call.drafted <= 0
    /\ HasEstimate(call.req)
    /\ \E q \in Reqs : ~HasEstimate(q)
    /\ Decide(stats, call.req).depth # DCap

(***************************************************************************)
(* C8  alpha_hat of a request is absent exactly while no update with       *)
(* drafted > 0 was recorded for it; once set it lies in [0, 1] and is      *)
(* never absent again.                                                     *)
(***************************************************************************)
C8_EstimateInvariant ==
    \A r \in Reqs :
        /\ HasEstimate(r) <=> fed[r] > 0
        /\ HasEstimate(r) => RLeq(Zero, stats[r]) /\ RLeq(stats[r], One)
        /\ r \in DOMAIN prior => HasEstimate(r)

C8_Witness ==
    /\ Updated
    /\ call.accepted > call.drafted
    /\ call.drafted > 0
    /\ fed[call.req] = 2
    /\ \E q \in Reqs : ~HasEstimate(q)

(***************************************************************************)
(* C9  Where A + B d <= 0 the speedup S(d, alpha) is exactly 1.0 for every *)
(* alpha in [0, 1], and decide_depth returns no such d when another depth  *)
(* of 0 .. d_cap has a strictly greater speedup.                           *)
(***************************************************************************)
C9_DegenerateSpeedupIsOne ==
    \A r \in DOMAIN stats : \A d \in 0 .. DCap :
        RLeq(Latency(d), Zero) =>
            /\ ~SpeedupRaises(d, stats[r])
            /\ Speedup(d, stats[r]) = One
            /\ (Returned /\ call.req = r /\ call.depth = d) =>
                   \A e \in 0 .. DCap :
                       ~SpeedupRaises(e, stats[r])
                       /\ RLeq(Speedup(e, stats[r]), Speedup(d, stats[r]))

\* the same for alpha < 1
C9_DegenerateBelowOne ==
    \A r \in DOMAIN stats : \A d \in 0 .. DCap :
        (RLeq(Latency(d), Zero) /\ RLt(stats[r], One)) =>
            /\ ~SpeedupRaises(d, stats[r])
            /\ Speedup(d, stats[r]) = One
            /\ (Returned /\ call.req = r /\ call.depth = d) =>
                   \A e \in 0 .. DCap :
                       ~SpeedupRaises(e, stats[r])
                       /\ RLeq(Speedup(e, stats[r]), Speedup(d, stats[r]))

(***************************************************************************)
(* C10  An update with accepted = drafted > 0 on a request whose alpha_hat *)
(* is below 1 moves it toward 1: alpha_hat <= alpha_hat' <= 1 and          *)
(* 1 - alpha_hat' = ema_beta * (1 - alpha_hat); it becomes 1.0 in that one *)
(* step only when ema_beta = 0.                                            *)
(***************************************************************************)
C10_EmaMovesTowardOne ==
    (/\ Updated
     /\ call.drafted > 0
     /\ call.accepted = call.drafted
     /\ call.req \in DOMAIN prior
     /\ RLt(prior[call.req], One)) =>
        LET before == prior[call.req]
            after == stats[call.req]
        IN  /\ RLeq(before, after)
            /\ RLeq(after, One)
            /\ RSub(One, after) = RMul(ema_beta, RSub(One, before))
            /\ (after = One => ema_beta = Zero)

C10_Witness ==
    /\ Updated
    /\ call.drafted > 0
    /\ call.accepted = call.drafted
    /\ call.req \in DOMAIN prior
    /\ RLt(Zero, ema_beta)
    /\ RLt(ema_beta, One)
    /\ RLt(prior[call.req], stats[call.req])
    /\ RLt(stats[call.req], One)

=============================================================================
